---- MODULE Spec2Model ----
(***************************************************************************)
(* Model of HloRunnerPjRt (tensorflow/compiler/xla/service/                *)
(* hlo_runner_pjrt.cc): the runner's single thread of control, stepping    *)
(* from one device-client call to the next, and the device client's own    *)
(* engine, which resolves readiness futures asynchronously.                *)
(***************************************************************************)
EXTENDS Integers, Sequences, FiniteSets, TLC

\* ---------------------------------------------------------------- bounds
MaxArgs == 2            \* longest argument list a caller passes
MaxOutputs == 2         \* most output buffers one execution produces
MaxExecutables == 2     \* executables compiled in one behaviour

\* ------------------------------------------------------ program constants
kDeviceIdx == 0

\* ------------------------------------------------------------ value sets
NULL == 0                \* nullptr among the Literal pointers of a span
Literals == {1, 2}       \* host values
GarbageDev == 0          \* what devices[kDeviceIdx] reads past the end
Modules == {[replica_count |-> 1, num_partitions |-> 2],
            [replica_count |-> 2, num_partitions |-> 1]}
ArgLists == UNION {[1..n -> Literals \cup {NULL}] : n \in 0..MaxArgs}
DeviceLists == {<<>>, <<1>>, <<1, 2>>}

NoAssignment == [replicas |-> 0, partitions |-> 0, variant |-> 0]
SomeAssignment == [replicas |-> 1, partitions |-> 1, variant |-> 1]
NoOptions == [device_assignment |-> NoAssignment, num_partitions |-> 0,
              num_replicas |-> 0, run_backend_only |-> FALSE]
NoModule == [replica_count |-> 0, num_partitions |-> 0]
NoResult == [tag |-> "none", err |-> "", val |-> 0, ids |-> <<>>]

ErrorResult(e) == [tag |-> "error", err |-> e, val |-> 0, ids |-> <<>>]
LiteralResultEmpty(v) == [tag |-> "literal", err |-> "", val |-> 0, ids |-> <<>>]

\* line 97: return std::move(*literal)
LiteralResult(v) == [tag |-> "literal", err |-> "", val |-> v, ids |-> <<>>]
BufferResult(b) == [tag |-> "buffer", err |-> "", val |-> 0, ids |-> <<b>>]
BuffersResult(s) == [tag |-> "buffers", err |-> "", val |-> 0, ids |-> s]
ExecutableResult(a) == [tag |-> "executable", err |-> "", val |-> a, ids |-> <<>>]

\* one entry of the trace of device-client operations of the current call
Op(op) ==
  [op |-> op, ok |-> TRUE, err |-> "", buf |-> 0, dev |-> 0, n |-> 0,
   lit |-> 0, args |-> <<>>, cfg |-> NoOptions]

Range(s) == {s[i] : i \in 1..Len(s)}

VARIABLES
  devices,        \* pjrt_client_->addressable_devices()
  bufs,           \* PjRtBuffer objects: id -> [lit, dev, fut, alive]
  exes,           \* PjRtLoadedExecutable objects: seq of [alive]
  adapters,       \* PjRtWrappedExecutable objects: seq of [alive, exe]
  held,           \* buffer ids owned by the caller
  heldAdapters,   \* adapter ids owned by the caller
  pc,             \* position of the runner's thread of control
  kind,           \* entry point of the current (or last) call
  module,         \* HloModule argument
  run_hlo_passes, \* bool argument
  arguments,      \* Span<const Literal* const> argument
  executable,     \* adapter the call runs (0: none)
  execute_options,\* compile_options local of Execute (line 129)
  compile_options,\* compile_options local of CreateExecutable (line 200)
  idx,            \* position of the range-for in TransferLiteralsToDevice
  buffers,        \* buffers / argument_handles vector
  buffer,         \* buffer local of the loop body (0: none)
  output_buffer,  \* output_buffer vector of ExecuteWithExecutable
  readback,       \* buffer parameter of TransferLiteralFromDevice (0: none)
  device_assignment_ptr, \* DeviceAssignment* argument of ExecuteReplicated
  result,         \* what the last call returned
  log,            \* device-client operations of the current call, in order
  last_run        \* adapter of the latest RunCompiled that returned a value (0: none)

clientVars == <<devices, bufs, exes, adapters>>
callerVars == <<held, heldAdapters, last_run>>
frameVars == <<kind, module, run_hlo_passes, arguments, executable,
               execute_options, compile_options, idx, buffers, buffer,
               output_buffer, readback, device_assignment_ptr>>
vars == <<devices, bufs, exes, adapters, held, heldAdapters, pc, kind, module,
          run_hlo_passes, arguments, executable, execute_options,
          compile_options, idx, buffers, buffer, output_buffer, readback,
          device_assignment_ptr, result, log, last_run>>

Init ==
  /\ devices \in DeviceLists
  /\ bufs = <<>>
  /\ exes = <<>>
  /\ adapters = <<>>
  /\ held = {}
  /\ heldAdapters = {}
  /\ pc = "idle"
  /\ kind = "none"
  /\ module = NoModule
  /\ run_hlo_passes = FALSE
  /\ arguments = <<>>
  /\ executable = 0
  /\ execute_options = NoOptions
  /\ compile_options = NoOptions
  /\ idx = 0
  /\ buffers = <<>>
  /\ buffer = 0
  /\ output_buffer = <<>>
  /\ readback = 0
  /\ device_assignment_ptr = NoAssignment
  /\ result = NoResult
  /\ log = <<>>
  /\ last_run = 0

\* ------------------------------------------------- the device client's replies
\* pjrt_client_->GetDefaultDeviceAssignment(replicas, partitions): every
\* answer is a DeviceAssignment object of its own, told apart by the serial
\* number of the query within the call
GetDefaultDeviceAssignment(replicas, partitions, serial) ==
  {[ok |-> TRUE, err |-> "",
    da |-> [replicas |-> replicas, partitions |-> partitions, variant |-> serial]],
   [ok |-> FALSE, err |-> "DeviceTopologyError", da |-> NoAssignment]}

\* pjrt_client_->Compile(computation, compile_options)
Compile(options) ==
  {[ok |-> TRUE, err |-> ""], [ok |-> FALSE, err |-> "CompilationError"]}

\* devices[kDeviceIdx] followed by the client call that takes the device.
\* Indexing past the end of the span is undefined: the build may trap, or
\* hand whatever it read to the client, which may take it or reject it.
\* GarbageDev stands for any such value: it is no device of the list.
DeviceSelect(devs) ==
  IF kDeviceIdx < Len(devs)
  THEN {[st |-> "ok", dev |-> devs[kDeviceIdx + 1]],
        [st |-> "error", dev |-> devs[kDeviceIdx + 1]]}
  ELSE {[st |-> "crash", dev |-> GarbageDev],
        [st |-> "ok", dev |-> GarbageDev],
        [st |-> "error", dev |-> GarbageDev]}

\* buffer.ToLiteralSync()
ToLiteralSync(b) ==
  {[ok |-> TRUE, err |-> "", lit |-> b.lit],
   [ok |-> FALSE, err |-> "ToLiteralError", lit |-> NULL]}

\* -------------------------------------------------------------- pure helpers
GenerateCompileOptionsBackendOnlyWithPasses(m, rhp, device_assignment) ==
  [device_assignment |-> device_assignment,
   num_partitions |-> m.num_partitions,
   num_replicas |-> m.replica_count,
   run_backend_only |-> rhp]

\* lines 79-90: the CompileOptions built from the module and the assignment
GenerateDefaultCompileOptions(m, rhp, device_assignment) ==
  [device_assignment |-> device_assignment,
   num_partitions |-> m.num_partitions,
   num_replicas |-> m.replica_count,
   run_backend_only |-> ~rhp]

BufferVecToPointerVecReversed(v) == [i \in 1..Len(v) |-> v[Len(v) + 1 - i]]

\* lines 138-147: argument_ptrs[i] = buffer[i].get()
BufferVecToPointerVec(v) == [i \in 1..Len(v) |-> v[i]]

CheckOutputSizeAtLeastOne(outs) == Len(outs) >= 1

\* CHECK_EQ(output_buffer.size(), 1)
CheckOutputSize(outs) == Len(outs) = 1

\* the element TransferLiteralFromDevice is given: *output_buffer[0]
OutputToRead(outs) == outs[1]

PushFront(v, b) == <<b>> \o v

\* buffers.push_back(std::move(buffer))
PushBack(v, b) == Append(v, b)

\* ----------------------------------------------------------- object tables
FreshIds(bs, n) ==
  LET free == (1..(Cardinality(DOMAIN bs) + n)) \ DOMAIN bs
      pick[k \in 0..n] ==
        IF k = 0 THEN <<>>
        ELSE LET rest == free \ Range(pick[k - 1])
             IN Append(pick[k - 1], CHOOSE i \in rest : \A j \in rest : i <= j)
  IN pick[n]

NewBuffer(lit, dev) == [lit |-> lit, dev |-> dev, fut |-> "pending", alive |-> TRUE]

AddBuffers(bs, ids, lit, dev) ==
  [b \in DOMAIN bs \cup Range(ids) |->
     IF b \in Range(ids) THEN NewBuffer(lit, dev) ELSE bs[b]]

\* ~unique_ptr<PjRtBuffer> for every id in ids
Destroy(bs, ids) ==
  [b \in DOMAIN bs |-> IF b \in ids THEN [bs[b] EXCEPT !.alive = FALSE] ELSE bs[b]]

\* forget the buffers destroyed by earlier calls
Sweep(bs) == [b \in {x \in DOMAIN bs : bs[x].alive} |-> bs[b]]

\* the buffers the running call owns
Owned == Range(buffers) \cup ({buffer} \ {0}) \cup Range(output_buffer)

Stubs == {"ExecuteReplicated1", "ExecuteReplicated2", "ExecuteReplicated3",
          "ExecuteAsyncOnStream"}

\* ~PjRtWrappedExecutable: the implicit destructor, which leaves the raw
\* pjrt_loaded_executable_ pointer alone
DestroyWrapped(as, a) == [as EXCEPT ![a].alive = FALSE]

\* ------------------------------------------------------------ call and return
ReturnInternal(status) == ErrorResult("Internal")

\* TF_ASSIGN_OR_RETURN / TF_RETURN_IF_ERROR: the failed status is the result
ReturnIfError(status) == ErrorResult(status)

Enter(k, m, rhp, args, a, rb, start) ==
  /\ pc = "idle"
  /\ rb = 0 => held = {}
  /\ kind' = k
  /\ module' = m
  /\ run_hlo_passes' = rhp
  /\ arguments' = args
  /\ executable' = a
  /\ readback' = rb
  /\ idx' = 1
  /\ pc' = start
  /\ UNCHANGED <<clientVars, callerVars, execute_options, compile_options,
                 buffers, buffer, output_buffer, device_assignment_ptr, result,
                 log>>

\* the caller has taken the result of the call and goes on: nothing of the
\* finished call is left but the objects it handed over or leaked
Continue ==
  /\ pc = "done"
  /\ pc' = "idle"
  /\ kind' = "none"
  /\ module' = NoModule
  /\ run_hlo_passes' = FALSE
  /\ arguments' = <<>>
  /\ executable' = 0
  /\ readback' = 0
  /\ device_assignment_ptr' = NoAssignment
  /\ execute_options' = NoOptions
  /\ compile_options' = NoOptions
  /\ idx' = 0
  /\ buffers' = <<>>
  /\ buffer' = 0
  /\ output_buffer' = <<>>
  /\ result' = NoResult
  /\ log' = <<>>
  /\ bufs' = Sweep(bufs)
  /\ last_run' = IF kind = "ExecuteWithExecutable" /\ result.tag = "literal"
                  THEN executable
                  ELSE last_run
  /\ UNCHANGED <<devices, exes, adapters, held, heldAdapters>>

UnwindDroppingExecutable(res) ==
  /\ pc' = "done"
  /\ result' = res
  /\ bufs' = Destroy(bufs, Owned)
  /\ adapters' = IF executable # 0
                 THEN DestroyWrapped(adapters, executable)
                 ELSE adapters
  /\ UNCHANGED <<devices, exes, held, heldAdapters, last_run, frameVars>>

\* return res to the caller: the locals of every frame of the call go out of
\* scope (the buffer vectors, and in Execute the unique_ptr<Executable>)
Unwind(res) ==
  /\ pc' = "done"
  /\ result' = res
  /\ bufs' = Destroy(bufs, Owned)
  /\ adapters' = IF kind = "Execute" /\ executable # 0
                 THEN DestroyWrapped(adapters, executable)
                 ELSE adapters
  /\ UNCHANGED <<devices, exes, held, heldAdapters, last_run, frameVars>>

\* ------------------------------------------------------------- entry points
Execute(m, args, rhp) ==
  /\ Len(exes) < MaxExecutables
  /\ Enter("Execute", m, rhp, args, 0, 0, "Execute_129")

CreateExecutable(m, rhp) ==
  /\ Len(exes) < MaxExecutables
  /\ Enter("CreateExecutable", m, rhp, <<>>, 0, 0, "CreateExecutable_200")

ExecuteWithExecutable(a, args) ==
  /\ a \in heldAdapters
  /\ Enter("ExecuteWithExecutable", NoModule, FALSE, args, a, 0,
           "TransferLiteralsToDevice_115")

TransferLiteralsToDevice(args) ==
  Enter("TransferLiteralsToDevice", NoModule, FALSE, args, 0, 0,
        "TransferLiteralsToDevice_115")

TransferLiteralToDevice(lit) ==
  Enter("TransferLiteralToDevice", NoModule, FALSE, <<lit>>, 0, 0,
        "TransferLiteralToDevice_102")

TransferLiteralFromDevice(b) ==
  /\ b \in held
  /\ Enter("TransferLiteralFromDevice", NoModule, FALSE, <<>>, 0, b,
           "TransferLiteralFromDevice_94")

UnimplementedReturnsEmpty == BuffersResult(<<>>)

\* what each of the four stubs returns
Unimplemented == ErrorResult("Unimplemented")

Stub(k, args, da) ==
  /\ pc = "idle"
  /\ pc' = "done"
  /\ kind' = k
  /\ arguments' = args
  /\ device_assignment_ptr' = da
  /\ result' = Unimplemented
  /\ UNCHANGED <<clientVars, callerVars, module, run_hlo_passes, executable,
                 readback, execute_options, compile_options, idx, buffers,
                 buffer, output_buffer, log>>

ExecuteReplicated1(args) == Stub("ExecuteReplicated1", args, NoAssignment)
ExecuteReplicated2(args, da) == Stub("ExecuteReplicated2", args, da)
ExecuteReplicated3(args, da) == Stub("ExecuteReplicated3", args, da)
ExecuteAsyncOnStream(a, args) ==
  /\ a \in heldAdapters
  /\ Stub("ExecuteAsyncOnStream", args, NoAssignment)

\* the caller lets go of the buffers the transfer calls gave it
ReleaseBuffers ==
  /\ pc = "idle"
  /\ held # {}
  /\ bufs' = Sweep(Destroy(bufs, held))
  /\ held' = {}
  /\ UNCHANGED <<devices, exes, adapters, heldAdapters, last_run, pc, frameVars,
                 result, log>>

\* the caller lets go of an adapter CreateExecutable gave it
DestroyAdapter(a) ==
  /\ pc = "idle"
  /\ a \in heldAdapters
  /\ adapters' = DestroyWrapped(adapters, a)
  /\ heldAdapters' = heldAdapters \ {a}
  /\ UNCHANGED <<devices, bufs, exes, held, last_run, pc, frameVars, result, log>>

\* ------------------------------------------------------- steps of a call
\* Execute, line 129: GenerateDefaultCompileOptions(module.get(), run_hlo_passes)
Execute_GenerateDefaultCompileOptions ==
  /\ pc = "Execute_129"
  /\ \E o \in GetDefaultDeviceAssignment(module.replica_count,
                                         module.num_partitions, Len(log) + 1) :
       /\ log' = Append(log, [Op("GetDefaultDeviceAssignment") EXCEPT
                                !.ok = o.ok, !.err = o.err,
                                !.cfg.device_assignment = o.da,
                                !.cfg.num_replicas = module.replica_count,
                                !.cfg.num_partitions = module.num_partitions])
       /\ IF o.ok
          THEN /\ execute_options' =
                    GenerateDefaultCompileOptions(module, run_hlo_passes, o.da)
               /\ pc' = "CreateExecutable_200"
               /\ UNCHANGED <<clientVars, callerVars, kind, module, run_hlo_passes,
                              arguments, executable, compile_options, idx, buffers,
                              buffer, output_buffer, readback, device_assignment_ptr,
                              result>>
          ELSE Unwind(ReturnIfError(o.err))

\* CreateExecutable, line 200
CreateExecutable_GenerateDefaultCompileOptions ==
  /\ pc = "CreateExecutable_200"
  /\ \E o \in GetDefaultDeviceAssignment(module.replica_count,
                                         module.num_partitions, Len(log) + 1) :
       /\ log' = Append(log, [Op("GetDefaultDeviceAssignment") EXCEPT
                                !.ok = o.ok, !.err = o.err,
                                !.cfg.device_assignment = o.da,
                                !.cfg.num_replicas = module.replica_count,
                                !.cfg.num_partitions = module.num_partitions])
       /\ IF o.ok
          THEN /\ compile_options' =
                    GenerateDefaultCompileOptions(module, run_hlo_passes, o.da)
               /\ pc' = "CreateExecutable_202"
               /\ UNCHANGED <<clientVars, callerVars, kind, module, run_hlo_passes,
                              arguments, executable, execute_options, idx, buffers,
                              buffer, output_buffer, readback, device_assignment_ptr,
                              result>>
          ELSE Unwind(ReturnIfError(o.err))

\* pjrt_executable.get(): the unique_ptr destroys the LoadedExecutable when
\* CreateExecutable returns
BorrowedExecutable == [alive |-> FALSE]

\* line 206, pjrt_executable.release(): the LoadedExecutable outlives the
\* unique_ptr that Compile returned
ReleasedExecutable == [alive |-> TRUE]

\* the options CreateExecutable(module.get(), compile_options) hands to Compile
OptionsToCompile == compile_options

\* CreateExecutable, lines 202-210: compile, then wrap the released executable
CreateExecutable_Compile ==
  /\ pc = "CreateExecutable_202"
  /\ \E o \in Compile(OptionsToCompile) :
       /\ log' = Append(log, [Op("Compile") EXCEPT
                                !.ok = o.ok, !.err = o.err, !.cfg = OptionsToCompile])
       /\ IF o.ok
          THEN LET e == Len(exes) + 1
                   a == Len(adapters) + 1
               IN /\ exes' = Append(exes, ReleasedExecutable)
                  /\ adapters' = Append(adapters, [alive |-> TRUE, exe |-> e])
                  /\ UNCHANGED last_run
                  /\ IF kind = "CreateExecutable"
                     THEN /\ pc' = "done"
                          /\ result' = ExecutableResult(a)
                          /\ heldAdapters' = heldAdapters \cup {a}
                          /\ UNCHANGED executable
                     ELSE /\ pc' = "TransferLiteralsToDevice_115"
                          /\ executable' = a
                          /\ UNCHANGED <<result, heldAdapters>>
                  /\ UNCHANGED <<devices, bufs, held, kind, module, run_hlo_passes,
                                 arguments, execute_options, compile_options, idx,
                                 buffers, buffer, output_buffer, readback,
                                 device_assignment_ptr>>
          ELSE Unwind(ReturnIfError(o.err))

\* the process is gone: the undefined device read trapped
Crash ==
  /\ pc' = "crashed"
  /\ UNCHANGED <<clientVars, callerVars, frameVars, result, log>>

IsNullUnchecked(literal) == FALSE

\* TransferLiteralsToDevice, line 116: TF_RET_CHECK(literal != nullptr)
IsNull(literal) == literal = NULL

TransferLiteralsToDevice_RetCheck ==
  /\ pc = "TransferLiteralsToDevice_115"
  /\ idx <= Len(arguments)
  /\ IsNull(arguments[idx])
  /\ UNCHANGED log
  /\ Unwind(ErrorResult("Internal"))

\* TransferLiteralToDevice, lines 102-105, called from the loop body (line 117)
TransferLiteralsToDevice_Transfer ==
  /\ pc = "TransferLiteralsToDevice_115"
  /\ idx <= Len(arguments)
  /\ ~IsNull(arguments[idx])
  /\ \E o \in DeviceSelect(devices) :
       CASE o.st = "crash" -> Crash
         [] o.st = "error" ->
              /\ log' = Append(log, [Op("BufferFromHostLiteral") EXCEPT
                                       !.ok = FALSE, !.err = "TransferError",
                                       !.dev = o.dev, !.n = idx,
                                       !.lit = arguments[idx]])
              /\ Unwind(ReturnIfError("TransferError"))
         [] o.st = "ok" ->
              LET b == FreshIds(bufs, 1)[1]
              IN /\ bufs' = AddBuffers(bufs, <<b>>, arguments[idx], o.dev)
                 /\ buffer' = b
                 /\ log' = Append(log, [Op("BufferFromHostLiteral") EXCEPT
                                          !.buf = b, !.dev = o.dev, !.n = idx,
                                          !.lit = arguments[idx]])
                 /\ pc' = "TransferLiteralsToDevice_119"
                 /\ UNCHANGED <<devices, exes, adapters, callerVars, kind, module,
                                run_hlo_passes, arguments, executable,
                                execute_options, compile_options, idx, buffers,
                                output_buffer, readback, device_assignment_ptr,
                                result>>

BatchAwaitNotBlocking(b) == {IF bufs[b].fut = "error" THEN "error" ELSE "ok"}

BatchAwaitIgnoringStatus(b) == IF bufs[b].fut = "pending" THEN {} ELSE {"ok"}

\* line 119: buffer->GetReadyFuture().Await() returns the future's status once
\* the future has resolved, and not before
BatchAwait(b) == IF bufs[b].fut = "pending" THEN {} ELSE {bufs[b].fut}

TransferLiteralsToDevice_NoAwait ==
  /\ pc = "TransferLiteralsToDevice_119"
  /\ buffers' = PushBack(buffers, buffer)
  /\ buffer' = 0
  /\ idx' = idx + 1
  /\ pc' = "TransferLiteralsToDevice_115"
  /\ UNCHANGED <<clientVars, callerVars, kind, module, run_hlo_passes,
                 arguments, executable, execute_options, compile_options,
                 output_buffer, readback, device_assignment_ptr, result, log>>

\* lines 119-120: await the buffer just transferred, then push it
TransferLiteralsToDevice_Await ==
  /\ pc = "TransferLiteralsToDevice_119"
  /\ \E st \in BatchAwait(buffer) :
       /\ log' = Append(log, [Op("Await") EXCEPT
                                !.ok = (st = "ok"), !.buf = buffer,
                                !.err = IF st = "ok" THEN "" ELSE "FutureError"])
       /\ IF st = "ok"
          THEN /\ buffers' = PushBack(buffers, buffer)
               /\ buffer' = 0
               /\ idx' = idx + 1
               /\ pc' = "TransferLiteralsToDevice_115"
               /\ UNCHANGED <<clientVars, callerVars, kind, module, run_hlo_passes,
                              arguments, executable, execute_options,
                              compile_options, output_buffer, readback,
                              device_assignment_ptr, result>>
          ELSE Unwind(ReturnIfError("FutureError"))

\* line 122: the loop is over; the vector goes to the caller of the batch
TransferLiteralsToDevice_Return ==
  /\ pc = "TransferLiteralsToDevice_115"
  /\ idx > Len(arguments)
  /\ IF kind = "TransferLiteralsToDevice"
     THEN /\ pc' = "done"
          /\ result' = BuffersResult(buffers)
          /\ held' = held \cup Range(buffers)
     ELSE /\ pc' = "ExecuteWithDeviceBuffers_171"
          /\ UNCHANGED <<result, held>>
  /\ UNCHANGED <<clientVars, heldAdapters, last_run, frameVars, log>>

\* TransferLiteralToDevice called on its own, lines 100-108: no await
TransferLiteralToDevice_Transfer ==
  /\ pc = "TransferLiteralToDevice_102"
  /\ \E o \in DeviceSelect(devices) :
       CASE o.st = "crash" -> Crash
         [] o.st = "error" ->
              /\ log' = Append(log, [Op("BufferFromHostLiteral") EXCEPT
                                       !.ok = FALSE, !.err = "TransferError",
                                       !.dev = o.dev, !.n = 1,
                                       !.lit = arguments[1]])
              /\ Unwind(ReturnIfError("TransferError"))
         [] o.st = "ok" ->
              LET b == FreshIds(bufs, 1)[1]
              IN /\ bufs' = AddBuffers(bufs, <<b>>, arguments[1], o.dev)
                 /\ log' = Append(log, [Op("BufferFromHostLiteral") EXCEPT
                                          !.buf = b, !.dev = o.dev, !.n = 1,
                                          !.lit = arguments[1]])
                 /\ pc' = "done"
                 /\ result' = BufferResult(b)
                 /\ held' = held \cup {b}
                 /\ UNCHANGED <<devices, exes, adapters, heldAdapters, last_run,
                                frameVars>>

\* ExecuteWithExecutable, lines 188-195: ExecuteWithDeviceBuffers (lines
\* 160-176), then CHECK_EQ on what it returned
ExecuteWithDeviceBuffers_ExecuteSharded ==
  /\ pc = "ExecuteWithDeviceBuffers_171"
  /\ LET argument_ptrs == BufferVecToPointerVec(buffers)
     IN \E o \in DeviceSelect(devices) :
       CASE o.st = "crash" -> Crash
         [] o.st = "error" ->
              /\ log' = Append(log, [Op("ExecuteSharded") EXCEPT
                                       !.ok = FALSE, !.err = "ExecutionError",
                                       !.dev = o.dev, !.args = argument_ptrs,
                                       !.buf = adapters[executable].exe])
              /\ Unwind(ReturnIfError("ExecutionError"))
         [] o.st = "ok" ->
              \E k \in 0..MaxOutputs, v \in Literals :
                LET outs == FreshIds(bufs, k)
                IN /\ bufs' = AddBuffers(bufs, outs, v, o.dev)
                   /\ output_buffer' = outs
                   /\ log' = Append(log, [Op("ExecuteSharded") EXCEPT
                                            !.dev = o.dev, !.n = k,
                                            !.args = argument_ptrs,
                                            !.buf = adapters[executable].exe])
                   /\ IF CheckOutputSize(outs)
                      THEN /\ pc' = "TransferLiteralFromDevice_94"
                           /\ readback' = OutputToRead(outs)
                      ELSE /\ pc' = "fatal"
                           /\ UNCHANGED readback
                   /\ UNCHANGED <<devices, exes, adapters, callerVars, kind, module,
                                  run_hlo_passes, arguments, executable,
                                  execute_options, compile_options, idx, buffers,
                                  buffer, device_assignment_ptr, result>>

FromDeviceAwaitSkipped(b) == {"ok"}

FromDeviceAwaitTimingOut(b) ==
  IF bufs[b].fut = "pending" THEN {"error"} ELSE {bufs[b].fut}

FromDeviceAwaitNotBlocking(b) == {IF bufs[b].fut = "error" THEN "error" ELSE "ok"}

\* line 94: buffer.GetReadyFuture().Await()
FromDeviceAwait(b) == IF bufs[b].fut = "pending" THEN {} ELSE {bufs[b].fut}

TransferLiteralFromDevice_Await ==
  /\ pc = "TransferLiteralFromDevice_94"
  /\ \E st \in FromDeviceAwait(readback) :
       /\ log' = Append(log, [Op("Await") EXCEPT
                                !.ok = (st = "ok"), !.buf = readback,
                                !.err = IF st = "ok" THEN "" ELSE "FutureError"])
       /\ IF st = "ok"
          THEN /\ pc' = "TransferLiteralFromDevice_96"
               /\ UNCHANGED <<clientVars, callerVars, frameVars, result>>
          ELSE Unwind(ReturnIfError("FutureError"))

\* lines 96-97
TransferLiteralFromDevice_ToLiteralSync ==
  /\ pc = "TransferLiteralFromDevice_96"
  /\ \E o \in ToLiteralSync(bufs[readback]) :
       /\ log' = Append(log, [Op("ToLiteralSync") EXCEPT
                                !.ok = o.ok, !.err = o.err, !.buf = readback,
                                !.lit = o.lit])
       /\ Unwind(IF o.ok THEN LiteralResult(o.lit) ELSE ReturnIfError(o.err))

\* the device client's engine completes a transfer or an execution
ResolveFuture(b) ==
  /\ pc \notin {"fatal", "crashed"}
  /\ bufs[b].alive
  /\ bufs[b].fut = "pending"
  /\ \E st \in {"ok", "error"} : bufs' = [bufs EXCEPT ![b].fut = st]
  /\ UNCHANGED <<devices, exes, adapters, callerVars, pc, frameVars, result, log>>

Next ==
  \/ \E m \in Modules, a \in ArgLists, rhp \in BOOLEAN : Execute(m, a, rhp)
  \/ \E m \in Modules, rhp \in BOOLEAN : CreateExecutable(m, rhp)
  \/ \E x \in DOMAIN adapters, a \in ArgLists : ExecuteWithExecutable(x, a)
  \/ \E a \in ArgLists : TransferLiteralsToDevice(a)
  \/ \E l \in Literals : TransferLiteralToDevice(l)
  \/ \E b \in DOMAIN bufs : TransferLiteralFromDevice(b)
  \/ \E a \in ArgLists : ExecuteReplicated1(a)
  \/ \E a \in ArgLists, da \in {NoAssignment, SomeAssignment} : ExecuteReplicated2(a, da)
  \/ \E a \in ArgLists, da \in {NoAssignment, SomeAssignment} : ExecuteReplicated3(a, da)
  \/ \E x \in DOMAIN adapters, a \in ArgLists : ExecuteAsyncOnStream(x, a)
  \/ \E x \in DOMAIN adapters : DestroyAdapter(x)
  \/ ReleaseBuffers
  \/ Continue
  \/ Execute_GenerateDefaultCompileOptions
  \/ CreateExecutable_GenerateDefaultCompileOptions
  \/ CreateExecutable_Compile
  \/ TransferLiteralsToDevice_RetCheck
  \/ TransferLiteralsToDevice_Transfer
  \/ TransferLiteralsToDevice_Await
  \/ TransferLiteralsToDevice_Return
  \/ TransferLiteralToDevice_Transfer
  \/ ExecuteWithDeviceBuffers_ExecuteSharded
  \/ TransferLiteralFromDevice_Await
  \/ TransferLiteralFromDevice_ToLiteralSync
  \/ \E b \in DOMAIN bufs : ResolveFuture(b)

Spec == Init /\ [][Next]_vars

\* the buffer whose future the runner's thread is blocked on (lines 119, 94)
Awaited ==
  IF pc = "TransferLiteralsToDevice_119" THEN {buffer}
  ELSE IF pc = "TransferLiteralFromDevice_94" THEN {readback}
  ELSE {}

\* the device client resolves the future the runner waits for
ResolveAwaited == \E b \in Awaited : ResolveFuture(b)

\* the runner's thread goes on: the device-client call it makes next returns
RunnerStep ==
  \/ Execute_GenerateDefaultCompileOptions
  \/ CreateExecutable_GenerateDefaultCompileOptions
  \/ CreateExecutable_Compile
  \/ TransferLiteralsToDevice_RetCheck
  \/ TransferLiteralsToDevice_Transfer
  \/ TransferLiteralsToDevice_Await
  \/ TransferLiteralsToDevice_Return
  \/ TransferLiteralToDevice_Transfer
  \/ ExecuteWithDeviceBuffers_ExecuteSharded
  \/ TransferLiteralFromDevice_Await
  \/ TransferLiteralFromDevice_ToLiteralSync

\* every device-client call returns, and every awaited future resolves
FairSpec == Spec /\ WF_vars(RunnerStep) /\ WF_vars(ResolveAwaited)

\* ===================================================================== claims
Staged == {j \in 1..Len(log) : log[j].op = "BufferFromHostLiteral" /\ log[j].ok}
StagedBuffers == {log[j].buf : j \in Staged}
RunnerCalls == {"Execute", "ExecuteWithExecutable"}
BatchCalls == RunnerCalls \cup {"TransferLiteralsToDevice"}

\* C1: whenever the dispatched execution succeeded with a number of output
\* buffers other than one, the call is in the fatal abort state, has returned
\* nothing, and the execution is the last device-client operation of the call
\* (no output buffer was awaited or read back).
C1_SingleOutputEnforced ==
  \A j \in 1..Len(log) :
    (log[j].op = "ExecuteSharded" /\ log[j].ok /\ log[j].n # 1)
      => /\ kind \in RunnerCalls
         /\ pc = "fatal"
         /\ result = NoResult
         /\ j = Len(log)

C1_Witness ==
  /\ kind = "Execute"
  /\ pc = "fatal"
  /\ Len(output_buffer) >= 2
  /\ log[Len(log)].op = "ExecuteSharded"

\* C2: in a batch transfer every buffer already pushed to the vector has a
\* resolved future, at most one buffer created by the batch is pending, and
\* between two transfers of the batch lies the successful await of the first.
C2_BatchSequenced ==
  kind \in BatchCalls =>
    /\ \A b \in Range(buffers) : bufs[b].fut # "pending"
    /\ Cardinality({b \in StagedBuffers : bufs[b].fut = "pending"}) <= 1
    /\ \A b \in StagedBuffers : bufs[b].fut = "pending" => b = buffer
    /\ \A i \in Staged, j \in Staged :
         i < j => \E m \in (i + 1)..(j - 1) :
                    /\ log[m].op = "Await"
                    /\ log[m].buf = log[i].buf
                    /\ log[m].ok

C2_Witness ==
  /\ kind = "TransferLiteralsToDevice"
  /\ pc = "TransferLiteralsToDevice_119"
  /\ Len(buffers) = 1
  /\ bufs[buffer].fut = "pending"

\* C3: a batch transfer that returns successfully returns one buffer per
\* input, distinct, the buffer at position i being the one created from
\* element i, each alive, handed to the caller and resolved successfully.
C3_BatchPostcondition ==
  (kind = "TransferLiteralsToDevice" /\ pc = "done" /\ result.tag = "buffers") =>
    /\ Len(result.ids) = Len(arguments)
    /\ \A i \in 1..Len(result.ids) :
         /\ result.ids[i] \in held
         /\ bufs[result.ids[i]].alive
         /\ bufs[result.ids[i]].fut = "ok"
         /\ \E j \in Staged : /\ log[j].n = i
                              /\ log[j].lit = arguments[i]
                              /\ log[j].buf = result.ids[i]
         /\ \A k \in 1..Len(result.ids) : k # i => result.ids[k] # result.ids[i]

C3_Witness ==
  /\ kind = "TransferLiteralsToDevice"
  /\ pc = "done"
  /\ result.tag = "buffers"
  /\ Len(result.ids) = 2
  /\ arguments[1] # arguments[2]

\* C4: in a batch transfer a rejected transfer or a failed await is the last
\* operation of the call, the call returns an error with no buffer list, and
\* every buffer the batch created is destroyed and none is handed over; no
\* transfer is ever started for a null element or for an element after it,
\* and a call with a null element never returns anything but an error.
C4_BatchFailFast ==
  kind \in BatchCalls =>
    /\ \A j \in 1..Len(log) :
         (log[j].op \in {"BufferFromHostLiteral", "Await"} /\ ~log[j].ok)
           => /\ j = Len(log)
              /\ pc = "done"
              /\ result.tag = "error"
              /\ result.ids = <<>>
              /\ held = {}
              /\ \A b \in StagedBuffers : ~bufs[b].alive
    /\ \A i \in 1..Len(arguments) :
         arguments[i] = NULL =>
           /\ \A j \in 1..Len(log) :
                log[j].op = "BufferFromHostLiteral" => log[j].n < i
           /\ pc = "done" => /\ result.tag = "error"
                             /\ result.ids = <<>>
                             /\ held = {}
                             /\ \A b \in StagedBuffers : ~bufs[b].alive

C4_Witness ==
  /\ kind = "TransferLiteralsToDevice"
  /\ pc = "done"
  /\ result = ErrorResult("Internal")
  /\ Len(arguments) = 2
  /\ arguments[2] = NULL
  /\ StagedBuffers # {}

\* C5: in CompileAndRun and RunCompiled a failed device-client operation is
\* the last operation of the call (nothing of a later stage, no retry), and
\* the call has returned exactly the error of that operation; a call that
\* has returned an error has returned no value and, unless the error is the
\* one of the execution itself, has dispatched no execution.
C5_StageErrorPropagated ==
  kind \in RunnerCalls =>
    /\ \A j \in 1..Len(log) :
         ~log[j].ok => /\ j = Len(log)
                       /\ pc = "done"
                       /\ result = ErrorResult(log[j].err)
    /\ \A j \in 1..Len(log) :
         log[j].op = "Compile" =>
           \A m \in 1..(j - 1) : log[m].op = "GetDefaultDeviceAssignment" /\ log[m].ok
    /\ (pc = "done" /\ result.tag = "error") =>
         /\ result.val = 0
         /\ \A j \in 1..Len(log) :
              /\ log[j].op = "ExecuteSharded" =>
                   result.err \in {"ExecutionError", "FutureError", "ToLiteralError"}
              /\ log[j].op = "ToLiteralSync" => result.err = "ToLiteralError"

C5_Witness ==
  /\ kind = "Execute"
  /\ pc = "done"
  /\ Len(arguments) = 2
  /\ log[Len(log)].op = "ExecuteSharded"
  /\ result = ErrorResult("ExecutionError")

\* C6: when the runner is about to invoke the sharded execution, and for
\* every execution it has invoked, every argument buffer is one input staged
\* by the call, alive at the time, with a future resolved successfully.
C6_ReadyBeforeDispatch ==
  /\ pc = "ExecuteWithDeviceBuffers_171" =>
       /\ Len(buffers) = Len(arguments)
       /\ \A b \in Range(BufferVecToPointerVec(buffers)) :
            bufs[b].alive /\ bufs[b].fut = "ok"
  /\ \A j \in 1..Len(log) :
       log[j].op = "ExecuteSharded" =>
         /\ Len(log[j].args) = Len(arguments)
         /\ \A b \in Range(log[j].args) :
              /\ bufs[b].fut = "ok"
              /\ \E m \in 1..(j - 1) :
                   log[m].op = "Await" /\ log[m].buf = b /\ log[m].ok

C6_Witness ==
  \E j \in 1..Len(log) :
    log[j].op = "ExecuteSharded" /\ log[j].ok /\ Len(log[j].args) = 2

\* C7: the synchronous materialization is invoked only on a buffer whose
\* future has resolved successfully, right after the successful await of
\* that buffer; a failed await of the buffer to read ends the call with the
\* future's error and no materialization; the call returns what the
\* materialization returned, value or error.
C7_FromDeviceAwaitsFirst ==
  /\ pc = "TransferLiteralFromDevice_96" => bufs[readback].fut = "ok"
  /\ \A j \in 1..Len(log) :
       log[j].op = "ToLiteralSync" =>
         /\ j > 1
         /\ log[j - 1].op = "Await" /\ log[j - 1].ok /\ log[j - 1].buf = log[j].buf
         /\ bufs[log[j].buf].fut = "ok"
         /\ j = Len(log)
         /\ pc = "done"
         /\ result = IF log[j].ok THEN LiteralResult(log[j].lit)
                                  ELSE ErrorResult(log[j].err)
  /\ \A j \in 1..Len(log) :
       (log[j].op = "Await" /\ ~log[j].ok /\ log[j].buf = readback) =>
         /\ j = Len(log)
         /\ pc = "done"
         /\ result = ErrorResult("FutureError")

C7_Witness ==
  /\ kind = "TransferLiteralFromDevice"
  /\ pc = "done"
  /\ result.tag = "literal"
  /\ log[Len(log)].op = "ToLiteralSync"

\* C8: a call of any of the four stubs has returned the Unimplemented error
\* with no device-client operation made, whatever its arguments, and the step
\* that makes the call changes no object of the client, the runner or caller.
C8_StubReturned ==
  kind \in Stubs => /\ pc = "done"
                    /\ result = ErrorResult("Unimplemented")
                    /\ log = <<>>

C8_StubStep ==
  (pc = "idle" /\ kind' \in Stubs) => UNCHANGED <<devices, bufs, exes, adapters, held, heldAdapters>>

\* C8: every stub call has returned Unimplemented without a client operation
\* (in every state), and the calling step leaves every object unchanged.
C8_UnimplementedSurface == [](C8_StubReturned) /\ [][C8_StubStep]_vars

C8_Witness ==
  /\ kind = "ExecuteReplicated3"
  /\ pc = "done"
  /\ arguments = <<>>
  /\ device_assignment_ptr = NoAssignment
  /\ Len(adapters) > 0

\* C9: during RunCompiled on an adapter, however often the adapter was run
\* before, the compiler and the device-assignment query are not invoked, the
\* execution dispatched is the adapter's own LoadedExecutable, which is alive
\* like the adapter, the buffers staged are created by this call from this
\* call's arguments, and no step of the call changes an adapter or a
\* LoadedExecutable.
C9_RunUsesAdapter ==
  kind = "ExecuteWithExecutable" =>
    /\ adapters[executable].alive
    /\ exes[adapters[executable].exe].alive
    /\ \A j \in 1..Len(log) :
         /\ log[j].op \notin {"Compile", "GetDefaultDeviceAssignment"}
         /\ log[j].op = "ExecuteSharded" => log[j].buf = adapters[executable].exe
         /\ log[j].op = "BufferFromHostLiteral" => log[j].lit = arguments[log[j].n]
    /\ Range(buffers) \subseteq StagedBuffers
    /\ \A i \in 1..Len(buffers) : bufs[buffers[i]].lit = arguments[i]

C9_RunStep ==
  (kind = "ExecuteWithExecutable" \/ kind' = "ExecuteWithExecutable")
    => UNCHANGED <<adapters, exes>>

\* C9: every state of a RunCompiled call uses the adapter's executable and
\* this call's arguments only, and no step of the call changes an adapter or
\* a LoadedExecutable.
C9_ExecutableReuse == [](C9_RunUsesAdapter) /\ [][C9_RunStep]_vars

C9_Witness ==
  /\ kind = "ExecuteWithExecutable"
  /\ pc = "done"
  /\ result.tag = "literal"
  /\ last_run = executable
  /\ Len(arguments) = 2

\* C10: with no device at index kDeviceIdx of the addressable-device list, no
\* transfer and no execution is issued, the process does not die, and a
\* transfer call that has returned has returned a TransferError.
C10_UnavailableDeviceIsError ==
  Len(devices) <= kDeviceIdx =>
    /\ pc # "crashed"
    /\ \A j \in 1..Len(log) :
         log[j].op \notin {"BufferFromHostLiteral", "ExecuteSharded"}
    /\ (kind = "TransferLiteralToDevice" /\ pc = "done")
         => result = ErrorResult("TransferError")

\* C11: a buffer the runner created holds the host value the caller passed
\* for it, unaltered, a transfer call that returned a buffer handed over a
\* buffer holding its argument, and a readback that returned a value returned
\* the value the buffer holds: reading back a transferred value v yields v.
C11_RoundTrip ==
  /\ \A j \in Staged :
       /\ log[j].lit = arguments[log[j].n]
       /\ bufs[log[j].buf].lit = log[j].lit
  /\ (kind = "TransferLiteralToDevice" /\ pc = "done" /\ result.tag = "buffer") =>
       /\ result.ids[1] \in held
       /\ bufs[result.ids[1]].lit = arguments[1]
  /\ (kind = "TransferLiteralFromDevice" /\ pc = "done" /\ result.tag = "literal") =>
       /\ readback \in held
       /\ result.val \in Literals
       /\ result.val = bufs[readback].lit

C11_Witness ==
  /\ kind = "TransferLiteralFromDevice"
  /\ pc = "done"
  /\ result.tag = "literal"
  /\ result.val = 2
  /\ Cardinality(held) = 1

\* C12: the configuration handed to the compiler has the module's replica
\* and partition counts, a backend-only flag that is the negation of
\* run_hlo_passes, and the device assignment the client returned to the
\* query right before, which asked for the module's counts; the options
\* Execute itself synthesizes (line 129) are derived the same way.
C12_DerivedConfiguration ==
  /\ \A j \in 1..Len(log) :
       log[j].op = "Compile" =>
         /\ log[j].cfg.num_replicas = module.replica_count
         /\ log[j].cfg.num_partitions = module.num_partitions
         /\ log[j].cfg.run_backend_only = ~run_hlo_passes
         /\ j > 1
         /\ log[j - 1].op = "GetDefaultDeviceAssignment"
         /\ log[j - 1].ok
         /\ log[j - 1].cfg.num_replicas = module.replica_count
         /\ log[j - 1].cfg.num_partitions = module.num_partitions
         /\ log[j].cfg.device_assignment = log[j - 1].cfg.device_assignment
         /\ log[j].cfg.device_assignment.replicas = module.replica_count
         /\ log[j].cfg.device_assignment.partitions = module.num_partitions
  /\ (kind = "Execute" /\ Len(log) >= 1 /\ log[1].ok) =>
       /\ execute_options.num_replicas = module.replica_count
       /\ execute_options.num_partitions = module.num_partitions
       /\ execute_options.run_backend_only = ~run_hlo_passes
       /\ execute_options.device_assignment = log[1].cfg.device_assignment

C12_Witness ==
  /\ kind = "CreateExecutable"
  /\ pc = "done"
  /\ run_hlo_passes
  /\ module.replica_count = 2
  /\ log[Len(log)].op = "Compile"
  /\ log[Len(log)].ok
  /\ log[Len(log)].cfg.run_backend_only = FALSE

\* C13: in a CompileAndRun or RunCompiled call every input buffer was staged
\* on, and the execution was dispatched on, one and the same device, the entry
\* at kDeviceIdx of the client's addressable-device list.
C13_DeviceAgreement ==
  kind \in RunnerCalls =>
    \A j \in 1..Len(log) :
      (log[j].op \in {"BufferFromHostLiteral", "ExecuteSharded"} /\ log[j].ok) =>
        /\ Len(devices) > kDeviceIdx
        /\ log[j].dev = devices[kDeviceIdx + 1]
        /\ \A i \in Staged : bufs[log[i].buf].dev = log[j].dev

\* positions of the compilations in the trace of the call
Compiles == {j \in 1..Len(log) : log[j].op = "Compile"}

\* C14: a CompileAndRun call that returned a value made its client
\* operations in this order and no others: the device-assignment queries,
\* all successful; one compilation; for each argument in order its transfer
\* followed by the successful await of the buffer; one execution of the
\* executable just compiled on exactly the staged buffers in argument order;
\* the successful await of the single output buffer and its materialization.
\* The value returned is the one the output buffer holds.
C14_StageOrder ==
  (kind = "Execute" /\ pc = "done" /\ result.tag = "literal") =>
    /\ Cardinality(Compiles) = 1
    /\ \A c \in Compiles :
         LET n == Len(arguments)
             x == c + 2 * n + 1
         IN /\ c >= 2
            /\ \A j \in 1..(c - 1) :
                 log[j].op = "GetDefaultDeviceAssignment" /\ log[j].ok
            /\ log[c].ok
            /\ Len(log) = x + 2
            /\ \A i \in 1..n :
                 /\ log[c + 2 * i - 1].op = "BufferFromHostLiteral"
                 /\ log[c + 2 * i - 1].ok
                 /\ log[c + 2 * i - 1].n = i
                 /\ log[c + 2 * i - 1].lit = arguments[i]
                 /\ log[c + 2 * i].op = "Await"
                 /\ log[c + 2 * i].ok
                 /\ log[c + 2 * i].buf = log[c + 2 * i - 1].buf
            /\ log[x].op = "ExecuteSharded"
            /\ log[x].ok
            /\ log[x].n = 1
            /\ log[x].buf = adapters[executable].exe
            /\ log[x].buf = Len(exes)
            /\ Len(log[x].args) = n
            /\ \A i \in 1..n : log[x].args[i] = log[c + 2 * i - 1].buf
            /\ Len(output_buffer) = 1
            /\ log[x + 1].op = "Await"
            /\ log[x + 1].ok
            /\ log[x + 1].buf = output_buffer[1]
            /\ log[x + 2].op = "ToLiteralSync"
            /\ log[x + 2].ok
            /\ log[x + 2].buf = output_buffer[1]
            /\ result.val = bufs[output_buffer[1]].lit
            /\ result.val \in Literals

C14_Witness ==
  /\ kind = "Execute"
  /\ pc = "done"
  /\ result.tag = "literal"
  /\ Len(arguments) = 2
  /\ arguments[1] # arguments[2]

\* the executions of the call that were dispatched with buffer b
DispatchedWith(b) ==
  {j \in 1..Len(log) : /\ log[j].op = "ExecuteSharded"
                        /\ log[j].ok
                        /\ b \in Range(log[j].args)}

\* C15: in a CompileAndRun or RunCompiled call a buffer of the call is
\* destroyed only when the call returns and never with its own future
\* pending; an input buffer an execution was dispatched with is destroyed
\* only with the future of every output buffer resolved; the output buffer
\* is destroyed only after its materialization or with its future resolved
\* to an error.
C15_BufferLifetime ==
  kind \in RunnerCalls =>
    /\ \A b \in DOMAIN bufs : ~bufs[b].alive => bufs[b].fut # "pending"
    /\ \A b \in Owned : ~bufs[b].alive => pc = "done"
    /\ \A b \in Range(buffers) :
         (~bufs[b].alive /\ DispatchedWith(b) # {}) =>
           \A o \in Range(output_buffer) : bufs[o].fut # "pending"
    /\ \A o \in Range(output_buffer) :
         ~bufs[o].alive =>
           \/ bufs[o].fut = "error"
           \/ \E j \in 1..Len(log) : log[j].op = "ToLiteralSync" /\ log[j].buf = o

C15_Witness ==
  /\ kind = "ExecuteWithExecutable"
  /\ pc = "done"
  /\ Len(buffers) = 2
  /\ \A b \in Range(buffers) : ~bufs[b].alive /\ DispatchedWith(b) # {}
  /\ Len(output_buffer) = 1
  /\ \A o \in Range(output_buffer) : ~bufs[o].alive /\ bufs[o].fut = "error"

\* positions of the awaits of buffer b in the trace of the call
AwaitsOf(b) == {j \in 1..Len(log) : log[j].op = "Await" /\ log[j].buf = b}

\* the awaits of a readback: one, made before the materialization, none
\* while the readback has not got past line 94
ReadbackAwaitedOnce ==
  /\ (readback # 0 /\ pc = "TransferLiteralFromDevice_94") => AwaitsOf(readback) = {}
  /\ (readback # 0 /\ pc \in {"TransferLiteralFromDevice_96", "done"}) =>
       /\ Cardinality(AwaitsOf(readback)) = 1
       /\ \A j \in 1..Len(log) :
            (log[j].op = "ToLiteralSync" /\ log[j].buf = readback) =>
              AwaitsOf(readback) = {j - 1}

\* every await of the call is the one that follows a transfer or the one of
\* the readback
NoOtherAwait ==
  \A j \in 1..Len(log) :
    log[j].op = "Await" =>
      \/ /\ j - 1 \in Staged
         /\ log[j - 1].buf = log[j].buf
      \/ /\ readback # 0
         /\ log[j].buf = readback
         /\ readback \notin StagedBuffers

\* C16 as claimed: every transfer to the device the runner has got past is
\* followed by exactly one await of its buffer, so that a call that returns
\* buffers returns them resolved; a readback awaits its buffer exactly once;
\* there is no other await. Stated for a client with a device at kDeviceIdx,
\* where no read of the device list is undefined.
C16_AwaitAtEveryToDevice ==
  Len(devices) > kDeviceIdx =>
    /\ \A j \in Staged :
         (pc = "done" \/ j < Len(log)) => AwaitsOf(log[j].buf) = {j + 1}
    /\ (pc = "done" /\ result.tag \in {"buffer", "buffers"}) =>
         \A i \in 1..Len(result.ids) : bufs[result.ids[i]].fut # "pending"
    /\ ReadbackAwaitedOnce
    /\ NoOtherAwait

\* C16 as amended: in a batch every transfer the loop has got past is
\* followed at once by exactly one await of its buffer (pending that await,
\* the loop is at line 119), so that a batch returns resolved buffers; a
\* transfer called on its own awaits nothing; a readback awaits its buffer
\* exactly once, before the materialization; there is no other await.
C16_SynchronizationPoints ==
  /\ kind = "TransferLiteralToDevice" =>
       \A j \in 1..Len(log) : log[j].op # "Await"
  /\ kind \in BatchCalls =>
       \A j \in Staged :
         IF j = Len(log)
         THEN /\ pc = "TransferLiteralsToDevice_119"
              /\ buffer = log[j].buf
              /\ AwaitsOf(log[j].buf) = {}
         ELSE AwaitsOf(log[j].buf) = {j + 1}
  /\ (pc = "done" /\ result.tag = "buffers") =>
       \A i \in 1..Len(result.ids) : bufs[result.ids[i]].fut # "pending"
  /\ ReadbackAwaitedOnce
  /\ NoOtherAwait

C16_Witness ==
  /\ kind = "TransferLiteralToDevice"
  /\ pc = "done"
  /\ result.tag = "buffer"
  /\ bufs[result.ids[1]].fut = "pending"
  /\ Len(devices) > kDeviceIdx
  /\ log # <<>>

\* C17: every adapter that exists wraps a LoadedExecutable that exists, its
\* own and no other adapter's.
C17_AdapterLifetime ==
  \A a \in DOMAIN adapters :
    adapters[a].alive =>
      /\ adapters[a].exe \in DOMAIN exes
      /\ exes[adapters[a].exe].alive
      /\ \A x \in DOMAIN adapters : adapters[x].exe = adapters[a].exe => x = a

C17_Witness ==
  /\ Len(adapters) = 2
  /\ ~adapters[1].alive
  /\ adapters[2].alive
  /\ kind = "ExecuteWithExecutable"
  /\ executable = 2
  /\ pc = "done"
  /\ result.tag = "literal"

\* a CompileAndRun or RunCompiled call is under way
InCall == kind \in RunnerCalls /\ pc \notin {"idle", "done", "fatal", "crashed"}

\* the call is over: it returned a value or an error, or the process ended,
\* by the CHECK_EQ abort or by the trap of an undefined device read, the one
\* case in which a step of the call does not return
Finished == pc \in {"done", "fatal", "crashed"}

\* a step taken while the awaited future is pending leaves the call where
\* it is: same position, no further client operation, nothing returned
C18_BlockedStep ==
  (Awaited # {} /\ \A b \in Awaited : bufs[b].fut = "pending") =>
    /\ pc' = pc
    /\ log' = log
    /\ result' = result
    /\ UNCHANGED frameVars

\* C18: with every client call returning and every awaited future resolving,
\* a CompileAndRun or RunCompiled call under way eventually is over; and
\* while the awaited future is pending the call stays blocked at the await.
C18_Termination == (InCall ~> Finished) /\ [][C18_BlockedStep]_vars

C18_Witness ==
  /\ kind = "Execute"
  /\ pc = "TransferLiteralFromDevice_94"
  /\ bufs[readback].fut = "pending"
  /\ Len(arguments) = 2

\* positions of the device-assignment queries in the trace of the call
Queries == {j \in 1..Len(log) : log[j].op = "GetDefaultDeviceAssignment"}

\* C19: a CompileAndRun call queries the device assignment once and no
\* more, compiles at most once, exactly once when it has got past a
\* successful query, and compiles with the assignment that query returned.
C19_OnePlanOneCompile ==
  kind = "Execute" =>
    /\ Cardinality(Queries) <= 1
    /\ Cardinality(Compiles) <= 1
    /\ pc # "Execute_129" => Cardinality(Queries) = 1
    /\ \A c \in Compiles : \A q \in Queries :
         /\ q < c
         /\ log[q].ok
         /\ log[c].cfg.device_assignment = log[q].cfg.device_assignment
    /\ (pc \notin {"Execute_129", "CreateExecutable_200", "CreateExecutable_202"}
          /\ \A q \in Queries : log[q].ok)
         => Cardinality(Compiles) = 1

\* C20: a LoadedExecutable the compiler produced is wrapped by an adapter
\* and does not outlive it; once a CompileAndRun call has returned, the
\* executable it compiled is destroyed. Stated for a client with a device at
\* kDeviceIdx, where no read of the device list is undefined.
C20_NoExecutableLeak ==
  Len(devices) > kDeviceIdx =>
    /\ \A e \in DOMAIN exes :
         exes[e].alive =>
           \E a \in DOMAIN adapters : adapters[a].exe = e /\ adapters[a].alive
    /\ (kind = "Execute" /\ pc = "done" /\ executable # 0) =>
         ~exes[adapters[executable].exe].alive

====
